---- MODULE Spec2Model ----
(***************************************************************************)
(* A model of tsh (src/tsh.c): the job-control core of a small Unix shell. *)
(*                                                                         *)
(* The shell is one thread of control.  Its main flow (main's read/eval    *)
(* loop and eval) is interrupted by signal handlers, which run on the same *)
(* thread: the model keeps the main flow's position in  pc  and the        *)
(* handlers in progress in  stack  (innermost last).  The kernel's part -  *)
(* the signal mask, the pending signals, the children and what waitpid and *)
(* kill do - is modelled from POSIX.  The job table's operations (addjob,  *)
(* deletejob, getjobpid, getjobjid, fgpid, listjobs) are declared in       *)
(* tsh_helper.h, which is not among the sources: they are modelled from    *)
(* the specification's section 4.1.                                        *)
(***************************************************************************)
EXTENDS Integers, Sequences, FiniteSets, TLC

\* ------------------------------------------------------------------ bounds

\* Process ids the kernel hands out; a pid is free again once reaped.
MaxPid == 3
\* Capacity of the job table.
Capacity == 2
\* Jobs launched in one run of the shell.
MaxLaunch == 3
\* Handlers in progress at once (the depth of the interrupted contexts).
MaxDepth == 2

\* The largest job id: after it the ids wrap back to 1.
MAXJID == 16

Pids == 1..MaxPid

\* ------------------------------------------------------------- signals

\* The signal numbers (Linux).
SigNo == [INT |-> 2, KILL |-> 9, CHLD |-> 17, CONT |-> 18, STOP |-> 19, TSTP |-> 20]

\* init_mask: the three signals the shell blocks around its critical sections.
init_mask == {"CHLD", "INT", "TSTP"}

\* The signals whose default action terminates / stops a child.
TermSigs == {SigNo.INT, SigNo.KILL}
StopSigs == {SigNo.TSTP, SigNo.STOP}

\* The status waitpid stores: WIFEXITED, WIFSIGNALED + WTERMSIG, WIFSTOPPED + WSTOPSIG.
NoStatus == [kind |-> "none", sig |-> 0]
ExitedStatus == [kind |-> "exit", sig |-> 0]
SignaledStatus(s) == [kind |-> "sig", sig |-> s]
StoppedStatus(s) == [kind |-> "stop", sig |-> s]
WIFEXITED(status) == status.kind = "exit"
WIFSIGNALED(status) == status.kind = "sig"
WIFSTOPPED(status) == status.kind = "stop"
WTERMSIG(status) == status.sig
WSTOPSIG(status) == status.sig

VARIABLES
  shell,     \* "running", "exited" (exit was called) or "crashed" (SIGSEGV)
  pc,        \* the main flow's position in main/eval
  pid,       \* eval's local pid (the child it forked), 0 outside a launch
  oldmask,   \* eval's local oldmask
  smask,     \* the mask sigsuspend restores when it returns
  woken,     \* a handler was run for the sigsuspend in progress
  mask,      \* the shell's blocked signals
  pending,   \* the shell's pending signals (one per kind: they coalesce)
  stack,     \* the handlers in progress, innermost last
  sig_chld,  \* volatile sig_atomic_t sig_chld
  job_list,  \* the job table: pid -> [jid, state, cmdline]
  nextjid,   \* the next job id to hand out
  proc,      \* the children: pid -> [st, own, rep]: the child's state, whether it
             \* has its own process group, whether waitpid has a change to report
  cmd,       \* the command the last step read: [builtin, argv1]
  out,       \* the lines the last step wrote to stdout
  sent       \* the kill() the last step issued

vars == <<shell, pc, pid, oldmask, smask, woken, mask, pending, stack,
          sig_chld, job_list, nextjid, proc, cmd, out, sent>>

\* ------------------------------------------------------------ job table

\* addjob: FALSE (and no change) when the table is at capacity.
CanAdd(jl) == Cardinality(DOMAIN jl) < Capacity

JidsInUse(jl) == {jl[p].jid : p \in DOMAIN jl}

\* The id addjob hands out: the next one not in use, wrapping after MAXJID.
RECURSIVE FreshJid(_, _, _)
FreshJid(jl, j, n) ==
  IF n = 0 \/ j \notin JidsInUse(jl) THEN j
  ELSE FreshJid(jl, IF j >= MAXJID THEN 1 ELSE j + 1, n - 1)

NewJid(jl, nj) == FreshJid(jl, nj, MAXJID)

addjob(jl, nj, p, state, cmdline) ==
  IF CanAdd(jl)
    THEN (p :> [jid |-> NewJid(jl, nj), state |-> state, cmdline |-> cmdline]) @@ jl
    ELSE jl

addjob_nextjid(jl, nj) ==
  IF CanAdd(jl)
    THEN (IF NewJid(jl, nj) >= MAXJID THEN 1 ELSE NewJid(jl, nj) + 1)
    ELSE nj

deletejob(jl, p) == [q \in DOMAIN jl \ {p} |-> jl[q]]

\* getjobpid: the job of pid p; HasJob is "the pointer is not NULL".
HasJob(jl, p) == p \in DOMAIN jl

\* getjobjid: the pid of the job with id j, 0 when there is none.
getjobjid(jl, j) ==
  IF \E p \in DOMAIN jl : jl[p].jid = j
    THEN CHOOSE p \in DOMAIN jl : jl[p].jid = j
    ELSE 0

\* fgpid: the pid of the foreground job, 0 when there is none.
fgpid(jl) ==
  IF \E p \in DOMAIN jl : jl[p].state = "FG"
    THEN CHOOSE p \in DOMAIN jl : jl[p].state = "FG" /\
                  \A q \in DOMAIN jl : jl[q].state = "FG" => p <= q
    ELSE 0

\* -------------------------------------------------------------- output

\* One line of output: its kind, and the values printed in it.
Line(t, jid, p, txt, sig) == [t |-> t, jid |-> jid, pid |-> p, txt |-> txt, sig |-> sig]

\* print_kill_job: "Job [jid] (pid) <verb> by signal <sig>\n"; the verb is
\* chosen by a switch on the signal number.
KillVerb(sig) ==
  IF sig = SigNo.INT THEN "terminated"
  ELSE IF sig = SigNo.TSTP THEN "stopped"
  ELSE ""

print_kill_job(jid, p, sig) == Line("Job", jid, p, KillVerb(sig), sig)

\* printf("[%d] (%d) %s\n", jid, pid, cmdline)
BgLine(jid, p, cmdline) == Line("bg", jid, p, cmdline, 0)

\* listjobs: one line per job, "[jid] (pid) <state> <cmdline>", by job id.
RECURSIVE ListLines(_, _)
ListLines(jl, ps) ==
  IF ps = {} THEN <<>>
  ELSE LET p == CHOOSE q \in ps : \A r \in ps : jl[q].jid <= jl[r].jid
       IN <<Line("list", jl[p].jid, p, jl[p].state, 0)>> \o ListLines(jl, ps \ {p})

listjobs(jl) == ListLines(jl, DOMAIN jl)

\* The command line eval stores with the job: its last word is & for a
\* background job.
CmdLine(state) == IF state = "BG" THEN "prog &" ELSE "prog"

\* ---------------------------------------------------- job references

\* The characters of a job reference; Tokens are the values of argv[1]
\* that bg and fg are given.
Digits == <<"0", "1", "2", "3", "4", "5", "6", "7", "8", "9">>
IsDigit(c) == \E i \in 1..10 : Digits[i] = c
DigitVal(c) == (CHOOSE i \in 1..10 : Digits[i] = c) - 1

Tokens == { <<"%", "1">>, <<"%", "2">>, <<"%", "3">>, <<"%", "1", "0">>, <<"%", "1", "1">>,
            <<"x", "1">> }

\* The first job id of two digits.
FirstLate == Len(Digits)

\* The job ids the launches of a run hand out: the first MaxLaunch ids, or,
\* in a shell that nine jobs have already come and gone in, the first
\* MaxLaunch ids of two digits.
LaunchJids == 1..MaxLaunch \cup FirstLate..(FirstLate + MaxLaunch - 1)

\* atoi: the value of the leading digits of s, 0 when there are none.
RECURSIVE AtoiFrom(_, _, _)
AtoiFrom(s, i, acc) ==
  IF i > Len(s) \/ ~IsDigit(s[i]) THEN acc
  ELSE AtoiFrom(s, i + 1, acc * 10 + DigitVal(s[i]))

atoi(s) == AtoiFrom(s, 1, 0)

\* Npow10: N <<= n; while (n--) N += N << 2; return N / 10.
RECURSIVE Times5(_, _)
Times5(N, n) == IF n = 0 THEN N ELSE Times5(N + N * 4, n - 1)

RECURSIVE Shl(_, _)
Shl(N, n) == IF n = 0 THEN N ELSE Shl(N * 2, n - 1)

Npow10(N, n) == Times5(Shl(N, n), n) \div 10

\* gjid_past_perc: the loop over the characters after the first one.
RECURSIVE GjidLoop(_, _, _, _)
GjidLoop(job_str, count, jid_digits, jid) ==
  IF count >= jid_digits THEN jid
  ELSE GjidLoop(job_str, count + 1, jid_digits,
                jid * Npow10(10, count) + atoi(SubSeq(job_str, count + 1, Len(job_str))))

gjid_past_perc(argv1) == GjidLoop(Tail(argv1), 0, Len(argv1) - 1, 0)

\* ------------------------------------------------------------ the kernel

FreeProc == [st |-> "free", own |-> FALSE, rep |-> FALSE]

\* kill(target, sig) finds a process: target 0 is the caller's own process
\* group, a negative target the process group -target, which exists while
\* its leader has called setpgid and has not been reaped.
KillFinds(pr, target) ==
  \/ target = 0
  \/ target < 0 /\ -target \in Pids /\ pr[-target].st # "free" /\ pr[-target].own

\* What the signal does to the child (default dispositions): SIGINT ends a
\* running program, SIGTSTP stops it, SIGCONT continues a stopped one.
KillChild(c, sig) ==
  IF sig = SigNo.INT /\ c.st = "run"
    THEN [c EXCEPT !.st = "zomb", !.rep = TRUE]
  ELSE IF sig = SigNo.TSTP /\ c.st = "run"
    THEN [c EXCEPT !.st = "stop", !.rep = TRUE]
  ELSE IF sig = SigNo.CONT /\ c.st = "stop"
    THEN [c EXCEPT !.st = "run", !.rep = FALSE]
  ELSE c

KillProc(pr, target, sig) ==
  IF target < 0 /\ KillFinds(pr, target)
    THEN [pr EXCEPT ![-target] = KillChild(pr[-target], sig)]
    ELSE pr

\* The signals the kill leaves pending for the shell: the signal itself when
\* sent to the shell's own group, SIGCHLD when a child changed state.
KillPending(pr, pend, target, sig) ==
  IF target = 0
    THEN pend \cup {h \in init_mask : SigNo[h] = sig}
  ELSE IF KillProc(pr, target, sig) # pr THEN pend \cup {"CHLD"}
  ELSE pend

NoCmd == [builtin |-> "", argv1 |-> <<>>]
Cmd(builtin, argv1) == [builtin |-> builtin, argv1 |-> argv1]

NoKill == [src |-> "none", target |-> 0, sig |-> 0]
KillRec(src, target, sig) == [src |-> src, target |-> target, sig |-> sig]

\* waitpid(-1, &status, WNOHANG | WUNTRACED) can report child p.
Reportable(p) == proc[p].rep

\* The statuses waitpid can store for child c.  How a program ended (it
\* exited, or which signal killed it) and which signal stopped it are the
\* program's and its senders' affair: the shell learns them here.
Statuses(c) ==
  IF c.st = "zomb"
    THEN {ExitedStatus} \cup {SignaledStatus(sg) : sg \in TermSigs}
    ELSE {StoppedStatus(sg) : sg \in StopSigs}

\* The child after waitpid reported it: a zombie is reaped, a stop is
\* reported once.
AfterWait(c) == IF c.st = "zomb" THEN FreeProc ELSE [c EXCEPT !.rep = FALSE]

\* ------------------------------------------------------------ Init

Init ==
  /\ shell = "running"
  /\ pc = "prompt"
  /\ pid = 0
  /\ oldmask = {}
  /\ smask = {}
  /\ woken = FALSE
  /\ mask = {}
  /\ pending = {}
  /\ stack = <<>>
  /\ sig_chld = 0
  /\ job_list = <<>>
  /\ nextjid = 1
  /\ proc = [p \in Pids |-> FreeProc]
  /\ cmd = NoCmd
  /\ out = <<>>
  /\ sent = NoKill

\* A step that writes nothing and sends no signal.
Quiet == cmd' = NoCmd /\ out' = <<>> /\ sent' = NoKill

\* The main flow runs when no handler is in progress.
MainAt(l) == shell = "running" /\ stack = <<>> /\ pc = l

\* Sigprocmask(SIG_BLOCK, &newmask, ...) and Sigprocmask(SIG_UNBLOCK, &newmask, NULL)
Block(m) == m \cup init_mask
Unblock(m) == m \ init_mask

\* --------------------------------------------------- eval: the builtins

\* case BUILTIN_QUIT: exit(0)
Quit ==
  /\ MainAt("prompt")
  /\ shell' = "exited"
  /\ cmd' = Cmd("quit", <<>>)
  /\ out' = <<>>
  /\ sent' = NoKill
  /\ UNCHANGED <<pc, pid, oldmask, smask, woken, mask, pending, stack, sig_chld,
                 job_list, nextjid, proc>>

\* case BUILTIN_JOBS: block, listjobs, unblock
Jobs ==
  /\ MainAt("prompt")
  /\ cmd' = Cmd("jobs", <<>>)
  /\ out' = listjobs(job_list)
  /\ sent' = NoKill
  /\ oldmask' = {}
  /\ mask' = Unblock(Block(mask))
  /\ UNCHANGED <<shell, pc, pid, smask, woken, pending, stack, sig_chld,
                 job_list, nextjid, proc>>

\* The test without the state: any job that exists is acted on.
BgfgActsAny(jl, jp) == jp # 0

\* builtin_bgfg's test: the job exists and is stopped (jp is its pid, 0 for
\* no job).
BgfgActs(jl, jp) == jp # 0 /\ jl[jp].state = "ST"

\* builtin_bgfg's first statement: the signals are blocked while the job
\* list is read and changed.
BgfgMask(m) == Block(m)

\* builtin_bgfg(argv1, newmask, state), then what eval does after it: for bg
\* nothing, for fg the loop  while (!sig_chld) Sigsuspend(&oldmask).
\* Kill exits the shell when kill() fails.
builtin_bgfg(argv1, state) ==
  LET jid == gjid_past_perc(argv1)
      jp == getjobjid(job_list, jid)
      target == -jp
  IN /\ MainAt("prompt")
     /\ cmd' = Cmd(IF state = "FG" THEN "fg" ELSE "bg", argv1)
     /\ oldmask' = {}
     /\ IF BgfgActs(job_list, jp)
          THEN /\ sent' = KillRec("bgfg", target, SigNo.CONT)
               /\ IF KillFinds(proc, target)
                    THEN /\ proc' = KillProc(proc, target, SigNo.CONT)
                         /\ pending' = KillPending(proc, pending, target, SigNo.CONT)
                         /\ job_list' = [job_list EXCEPT ![jp].state = state]
                         /\ sig_chld' = IF state = "FG" THEN 0 ELSE sig_chld
                         /\ out' = IF state = "BG"
                                     THEN <<BgLine(jid, jp, job_list[jp].cmdline)>>
                                     ELSE <<>>
                         /\ mask' = Unblock(BgfgMask(mask))
                         /\ pc' = IF state = "FG" THEN "fg_test" ELSE "prompt"
                         /\ shell' = shell
                    ELSE /\ shell' = "exited"
                         /\ mask' = BgfgMask(mask)
                         /\ out' = <<>>
                         /\ UNCHANGED <<proc, pending, job_list, sig_chld, pc>>
          ELSE /\ sent' = NoKill
               /\ out' = <<>>
               /\ mask' = Unblock(BgfgMask(mask))
               /\ pc' = IF state = "FG" THEN "fg_test" ELSE "prompt"
               /\ UNCHANGED <<shell, proc, pending, job_list, sig_chld>>
     /\ UNCHANGED <<pid, smask, woken, stack, nextjid>>

\* case BUILTIN_BG
Bg == \E argv1 \in Tokens : builtin_bgfg(argv1, "BG")

\* case BUILTIN_FG, up to the loop
Fg == \E argv1 \in Tokens : builtin_bgfg(argv1, "FG")

\* The test of  while (!sig_chld)  after builtin_bgfg (the signals are not
\* blocked here).
FgTest ==
  /\ MainAt("fg_test")
  /\ pc' = IF sig_chld # 0 THEN "prompt" ELSE "fg_call"
  /\ Quiet
  /\ UNCHANGED <<shell, pid, oldmask, smask, woken, mask, pending, stack, sig_chld,
                 job_list, nextjid, proc>>

\* Sigsuspend(&oldmask) in the fg loop.
FgSuspend ==
  /\ MainAt("fg_call")
  /\ pc' = "fg_susp"
  /\ smask' = mask
  /\ mask' = oldmask
  /\ woken' = FALSE
  /\ Quiet
  /\ UNCHANGED <<shell, pid, oldmask, pending, stack, sig_chld,
                 job_list, nextjid, proc>>

\* Sigsuspend(&oldmask) returns in the fg loop, once a handler has run and
\* returned, with the mask it was called with; the loop tests sig_chld again.
FgWake ==
  /\ MainAt("fg_susp") /\ woken
  /\ pc' = IF sig_chld # 0 THEN "prompt" ELSE "fg_call"
  /\ mask' = smask
  /\ smask' = {}
  /\ woken' = FALSE
  /\ Quiet
  /\ UNCHANGED <<shell, pid, oldmask, pending, stack, sig_chld,
                 job_list, nextjid, proc>>

\* ------------------------------------------- eval: an external command

\* The mask eval forks under: Sigprocmask(SIG_BLOCK, &newmask, &oldmask).
LaunchMask(m) == Block(m)

\* case BUILTIN_NONE: block, fork.  The child starts in the shell's process
\* group, with the signals blocked.
Fork(fg) ==
  /\ MainAt("prompt")
  /\ nextjid \in LaunchJids
  /\ cmd' = Cmd(IF fg THEN "prog" ELSE "prog &", <<>>)
  /\ \E p \in Pids :
       /\ proc[p].st = "free"
       /\ \A q \in Pids : proc[q].st = "free" => p <= q
       /\ proc' = [proc EXCEPT ![p] = [st |-> "run", own |-> FALSE, rep |-> FALSE]]
       /\ pid' = p
  /\ oldmask' = mask
  /\ mask' = LaunchMask(mask)
  /\ pc' = IF fg THEN "fork_fg" ELSE "fork_bg"
  /\ out' = <<>>
  /\ sent' = NoKill
  /\ UNCHANGED <<shell, smask, woken, pending, stack, sig_chld, job_list, nextjid>>

LaunchFg == Fork(TRUE)
LaunchBg == Fork(FALSE)

\* The loop  while (!sig_chld) Sigsuspend(&oldmask)  of a foreground launch,
\* entered with the signals blocked: the test and the call of sigsuspend, and
\* after the loop Sigprocmask(SIG_UNBLOCK, &newmask, NULL) and eval returns.
LaunchLoop(m) ==
  IF sig_chld' = 0
    THEN /\ pc' = "launch_susp"
         /\ smask' = m
         /\ mask' = oldmask
         /\ pid' = pid
    ELSE /\ pc' = "prompt"
         /\ smask' = {}
         /\ mask' = Unblock(m)
         /\ pid' = 0

\* parse_result == PARSELINE_FG: sig_chld = 0; addjob(job_list, pid, FG,
\* cmdline); the loop.
AddFg ==
  /\ MainAt("fork_fg")
  /\ sig_chld' = 0
  /\ job_list' = addjob(job_list, nextjid, pid, "FG", CmdLine("FG"))
  /\ nextjid' = addjob_nextjid(job_list, nextjid)
  /\ LaunchLoop(mask)
  /\ woken' = FALSE
  /\ Quiet
  /\ UNCHANGED <<shell, oldmask, pending, stack, proc>>

\* Sigsuspend(&oldmask) returns in the launch loop, with the signals blocked
\* again; the loop goes on.
LaunchWake ==
  /\ MainAt("launch_susp") /\ woken
  /\ sig_chld' = sig_chld
  /\ LaunchLoop(smask)
  /\ woken' = FALSE
  /\ Quiet
  /\ UNCHANGED <<shell, oldmask, pending, stack, job_list, nextjid, proc>>

\* parse_result == PARSELINE_BG: addjob, getjobpid, printf of job->jid and
\* job->pid, unblock.  job is NULL when addjob failed.
AddBg ==
  /\ MainAt("fork_bg")
  /\ LET jl == addjob(job_list, nextjid, pid, "BG", CmdLine("BG"))
     IN /\ job_list' = jl
        /\ nextjid' = addjob_nextjid(job_list, nextjid)
        /\ IF HasJob(jl, pid)
             THEN /\ out' = <<BgLine(jl[pid].jid, pid, CmdLine("BG"))>>
                  /\ mask' = Unblock(mask)
                  /\ pc' = "prompt"
                  /\ pid' = 0
                  /\ shell' = shell
             ELSE /\ shell' = "crashed"
                  /\ out' = <<>>
                  /\ UNCHANGED <<mask, pc, pid>>
  /\ cmd' = NoCmd
  /\ sent' = NoKill
  /\ UNCHANGED <<oldmask, smask, woken, pending, stack, sig_chld, proc>>

\* -------------------------------------------------- signal delivery

Top == stack[Len(stack)]
SetTop(f) == [stack EXCEPT ![Len(stack)] = f]
Pop == SubSeq(stack, 1, Len(stack) - 1)

\* A handler in progress: which handler, where it is, its locals (pid and
\* status), and the mask the kernel restores when it returns.
Frame(h, l, p, status, m) == [h |-> h, pc |-> l, pid |-> p, status |-> status, saved |-> m]

\* The mask a handler starts with: Signal() installs the handlers with an
\* empty sa_mask, so the kernel adds the delivered signal only.
HandlerMask(m, h) == m \cup {h}

\* The kernel can deliver h: it is pending and not blocked.  A handler
\* starts on top of whatever was running.
Deliverable(h) ==
  /\ shell = "running"
  /\ h \in pending \ mask
  /\ Len(stack) < MaxDepth

\* A delivery during sigsuspend lets it return afterwards.
Wakes == IF stack = <<>> /\ pc \in {"fg_susp", "launch_susp"} THEN TRUE ELSE woken

InHandler(hs, l) ==
  /\ shell = "running"
  /\ stack # <<>>
  /\ Top.h \in hs
  /\ Top.pc = l

\* ------------------------------------------------------ sigchld_handler

\* The test without the comparison: any job's change ends the foreground wait.
WasForegroundAny(state) == TRUE

\* A handler that tested state != ST instead.
WasForegroundNotStopped(state) == state # "ST"

\* The handler's test of the job's state before the change: state == FG.
WasForeground(state) == state = "FG"

\* The job list after the reaper handled (p, status).
ReapJobs(jl, p, status) ==
  IF WIFEXITED(status) \/ WIFSIGNALED(status) THEN deletejob(jl, p)
  ELSE IF WIFSTOPPED(status) THEN [jl EXCEPT ![p].state = "ST"]
  ELSE jl

\* What the reaper prints for (jid, p, status).
ReapOut(jid, p, status) ==
  IF WIFSIGNALED(status) THEN <<print_kill_job(jid, p, WTERMSIG(status))>>
  ELSE IF WIFSTOPPED(status) THEN <<print_kill_job(jid, p, WSTOPSIG(status))>>
  ELSE <<>>

\* The mask the loop's body ends with: Sigprocmask(SIG_UNBLOCK, &newmask, NULL).
ReapMask(m) == Unblock(Block(m))

\* SIGCHLD is delivered and the handler runs up to its first interruptible
\* point: the loop's test, waitpid(-1, &status, WNOHANG | WUNTRACED) > 0,
\* which reports any one child that changed state.  With none to report the
\* handler returns at once.
SigchldEnter ==
  /\ Deliverable("CHLD")
  /\ pending' = pending \ {"CHLD"}
  /\ woken' = Wakes
  /\ \/ \E p \in Pids :
          /\ Reportable(p)
          /\ \E status \in Statuses(proc[p]) :
               stack' = Append(stack, Frame("CHLD", "got", p, status, mask))
          /\ proc' = [proc EXCEPT ![p] = AfterWait(proc[p])]
          /\ mask' = HandlerMask(mask, "CHLD")
     \/ /\ \A p \in Pids : ~Reportable(p)
        /\ UNCHANGED <<stack, proc, mask>>
  /\ Quiet
  /\ UNCHANGED <<shell, pc, pid, oldmask, smask, sig_chld, job_list, nextjid>>

\* The loop's test again, after the body.
Waitpid ==
  /\ InHandler({"CHLD"}, "loop")
  /\ \/ \E p \in Pids :
          /\ Reportable(p)
          /\ \E status \in Statuses(proc[p]) :
               stack' = SetTop([Top EXCEPT !.pc = "got", !.pid = p, !.status = status])
          /\ proc' = [proc EXCEPT ![p] = AfterWait(proc[p])]
          /\ mask' = mask
     \/ /\ \A p \in Pids : ~Reportable(p)
        /\ stack' = Pop
        /\ mask' = Top.saved
        /\ proc' = proc
  /\ Quiet
  /\ UNCHANGED <<shell, pc, pid, oldmask, smask, woken, pending, sig_chld,
                 job_list, nextjid>>

\* The loop's body, from Sigprocmask(SIG_BLOCK) to Sigprocmask(SIG_UNBLOCK).
\* job is NULL when the pid has no job: job->jid then faults.
Reap ==
  /\ InHandler({"CHLD"}, "got")
  /\ IF HasJob(job_list, Top.pid)
       THEN LET job == job_list[Top.pid]
            IN /\ job_list' = ReapJobs(job_list, Top.pid, Top.status)
               /\ out' = ReapOut(job.jid, Top.pid, Top.status)
               /\ sig_chld' = IF WasForeground(job.state) THEN 1 ELSE sig_chld
               /\ mask' = ReapMask(mask)
               /\ stack' = SetTop([Top EXCEPT !.pc = "loop", !.pid = 0, !.status = NoStatus])
               /\ shell' = shell
       ELSE /\ shell' = "crashed"
            /\ out' = <<>>
            /\ UNCHANGED <<job_list, sig_chld, mask, stack>>
  /\ cmd' = NoCmd
  /\ sent' = NoKill
  /\ UNCHANGED <<pc, pid, oldmask, smask, woken, pending, nextjid, proc>>

\* ---------------------------------- sigint_handler and sigtstp_handler

\* get_sig_gpid: block, pid = -fgpid(job_list), unblock.
get_sig_gpid(jl) == -fgpid(jl)

\* The mask get_sig_gpid returns with.
GpidMask(m) == Unblock(Block(m))

\* SIGINT or SIGTSTP is delivered and the handler runs up to its first
\* interruptible point: get_sig_gpid has returned, Kill is to be called.
ForwarderEnter ==
  \E h \in {"INT", "TSTP"} :
    /\ Deliverable(h)
    /\ pending' = pending \ {h}
    /\ woken' = Wakes
    /\ stack' = Append(stack, Frame(h, "kill", get_sig_gpid(job_list), NoStatus, mask))
    /\ mask' = GpidMask(HandlerMask(mask, h))
    /\ Quiet
    /\ UNCHANGED <<shell, pc, pid, oldmask, smask, sig_chld, job_list, nextjid, proc>>

\* Kill(get_sig_gpid(), sig); return.  Kill exits the shell when kill() fails.
Forward ==
  /\ InHandler({"INT", "TSTP"}, "kill")
  /\ LET target == Top.pid
         sig == SigNo[Top.h]
     IN /\ sent' = KillRec(Top.h, target, sig)
        /\ IF KillFinds(proc, target)
             THEN /\ proc' = KillProc(proc, target, sig)
                  /\ pending' = KillPending(proc, pending, target, sig)
                  /\ stack' = Pop
                  /\ mask' = Top.saved
                  /\ shell' = shell
             ELSE /\ shell' = "exited"
                  /\ UNCHANGED <<proc, pending, stack, mask>>
  /\ cmd' = NoCmd
  /\ out' = <<>>
  /\ UNCHANGED <<pc, pid, oldmask, smask, woken, sig_chld, job_list, nextjid>>

\* ------------------------------------------------------ the environment

\* The user types ctrl-c or ctrl-z: the terminal signals the shell's group.
\* The user types the next one once the last one is no longer pending.
UserSignal ==
  /\ shell = "running"
  /\ \E h \in {"INT", "TSTP"} :
       /\ pending \cap {"INT", "TSTP"} = {}
       /\ pending' = pending \cup {h}
  /\ Quiet
  /\ UNCHANGED <<shell, pc, pid, oldmask, smask, woken, mask, stack, sig_chld,
                 job_list, nextjid, proc>>

\* The child runs Setpgid(0, 0) (then unblocks and execs).
ChildSetpgid ==
  /\ shell = "running"
  /\ \E p \in Pids :
       /\ proc[p].st = "run" /\ ~proc[p].own
       /\ proc' = [proc EXCEPT ![p].own = TRUE]
  /\ Quiet
  /\ UNCHANGED <<shell, pc, pid, oldmask, smask, woken, mask, pending, stack, sig_chld,
                 job_list, nextjid>>

\* A child's state changes: SIGCHLD becomes pending for the shell.
ChildChange(p, c) ==
  /\ proc' = [proc EXCEPT ![p] = c]
  /\ pending' = pending \cup {"CHLD"}
  /\ Quiet
  /\ UNCHANGED <<shell, pc, pid, oldmask, smask, woken, mask, stack, sig_chld,
                 job_list, nextjid>>

\* The program ends: it exits, or a signal kills it (SIGKILL also kills a
\* stopped one).
ChildEnds ==
  /\ shell = "running"
  /\ \E p \in Pids :
       /\ proc[p].st \in {"run", "stop"} /\ proc[p].own
       /\ ChildChange(p, [proc[p] EXCEPT !.st = "zomb", !.rep = TRUE])

\* A signal sent from outside the shell stops the program.
ChildStops ==
  /\ shell = "running"
  /\ \E p \in Pids :
       /\ proc[p].st = "run" /\ proc[p].own
       /\ ChildChange(p, [proc[p] EXCEPT !.st = "stop", !.rep = TRUE])

\* ------------------------------------------------------ specification

MainStep ==
  \/ FgTest
  \/ FgSuspend
  \/ FgWake
  \/ AddFg
  \/ LaunchWake
  \/ AddBg

HandlerStep ==
  \/ Waitpid
  \/ Reap
  \/ Forward

DeliverAny ==
  \/ SigchldEnter
  \/ ForwarderEnter

Command ==
  \/ Quit
  \/ Jobs
  \/ Bg
  \/ Fg
  \/ LaunchFg
  \/ LaunchBg

Environment ==
  \/ UserSignal
  \/ ChildSetpgid
  \/ ChildEnds
  \/ ChildStops

Next ==
  \/ Command
  \/ MainStep
  \/ HandlerStep
  \/ DeliverAny
  \/ Environment

Spec == Init /\ [][Next]_vars

\* The shell after nine jobs have come and gone: the next job id has two
\* digits.
InitLate ==
  /\ shell = "running"
  /\ pc = "prompt"
  /\ pid = 0
  /\ oldmask = {}
  /\ smask = {}
  /\ woken = FALSE
  /\ mask = {}
  /\ pending = {}
  /\ stack = <<>>
  /\ sig_chld = 0
  /\ job_list = <<>>
  /\ nextjid = FirstLate
  /\ proc = [p \in Pids |-> FreeProc]
  /\ cmd = NoCmd
  /\ out = <<>>
  /\ sent = NoKill

SpecLate == InitLate /\ [][Next]_vars

\* The shell's own steps are taken when they can be: the main flow and the
\* handlers run, and the kernel delivers a pending unblocked signal.  The
\* user and the children are under no obligation.
FairSpec ==
  /\ Spec
  /\ WF_vars(MainStep)
  /\ WF_vars(HandlerStep)
  /\ WF_vars(DeliverAny)

\* ------------------------------------------------------------ properties

\* The jobs in the foreground.
FgJobs == {p \in DOMAIN job_list : job_list[p].state = "FG"}

\* C1: in every reachable state at most one job of the job table has state FG.
AtMostOneForeground == Cardinality(FgJobs) <= 1

\* C1's case: a job is in the foreground while another job is in the table.
ForegroundAmongJobs ==
  \E p \in FgJobs : \E q \in DOMAIN job_list : q # p

\* The handler in progress holds the report of child p (waitpid returned it).
Reported(p) == stack # <<>> /\ Top.h = "CHLD" /\ Top.pc = "got" /\ Top.pid = p

\* The launch loop is never entered with the flag set: between the test of
\* sig_chld and the suspension no handler runs.
LaunchSuspendsUnset ==
  (MainAt("launch_susp") /\ ~woken) => sig_chld = 0

\* C2: when eval launches a command in the foreground and the child ends or
\* stops, eval leaves the wait loop and returns.  In a finite run: the shell
\* is never brought down, inside the wait loop, by the report of the child it
\* is waiting for.
LaunchWaitReturns ==
  ~(pc = "launch_susp" /\ shell # "running" /\ Reported(pid))

\* Nothing is left that could interrupt a suspended shell, short of the user
\* typing a signal: no signal is pending and no child is left.
NothingToCome == pending = {} /\ \A p \in Pids : proc[p].st = "free"

\* C3: after fg has moved a stopped job to the foreground, a report that
\* arrives after the test of sig_chld and before the suspension is not lost,
\* and eval returns once the job has ended or stopped.  In a finite run: eval
\* is never left suspended in the fg loop with sig_chld already set and
\* nothing to come.
FgWaitReturns ==
  ~(MainAt("fg_susp") /\ ~woken /\ sig_chld # 0 /\ NothingToCome)

\* C4: every pid that the handler's waitpid reports has a job in the job
\* table when the handler looks it up.
LookupFindsJob ==
  InHandler({"CHLD"}, "got") => HasJob(job_list, Top.pid)

\* C5: when SIGINT or SIGTSTP reaches the shell while no job is in the
\* foreground, the handler sends no signal: a forwarder's kill is never
\* addressed to the shell's own process group.
ForwarderSparesShell ==
  ~(sent.src \in {"INT", "TSTP"} /\ sent.target = 0)

\* The handler in progress has looked at every child with a change to report.
ChangeIsAnnounced ==
  \A p \in Pids :
    Reportable(p) => ("CHLD" \in pending \/ \E i \in 1..Len(stack) : stack[i].h = "CHLD")

\* C6: no change of a child's state is lost: once the signals are unblocked
\* the handler processes every child that ended or stopped.  In a finite run:
\* the shell is never brought down in the handler while a child of the job
\* table has a change that waitpid has not reported yet.
ReaperProcessesAll ==
  ~(/\ shell = "crashed"
    /\ stack # <<>> /\ Top.h = "CHLD"
    /\ \E p \in DOMAIN job_list : Reportable(p))

\* The step of the handler's loop body for the report (p, status).
ReapStep(p, status) ==
  /\ InHandler({"CHLD"}, "got")
  /\ Top.pid = p
  /\ Top.status = status
  /\ Len(stack') = Len(stack)
  /\ stack'[Len(stack)].pc = "loop"

\* A job leaves the table only in the handler, on a report that its child
\* exited or was killed; a report that it stopped leaves it in the table.
RemovedOnlyByReaper ==
  [][\A p \in Pids :
       (HasJob(job_list, p) /\ ~HasJob(job_list', p)) =>
         \E status \in {ExitedStatus} \cup {SignaledStatus(sg) : sg \in TermSigs} :
           ReapStep(p, status)]_vars

\* C7: a job is in the job table for the lifetime of its unreaped child: once
\* eval is past addjob, every child that has not been reaped has its job.
LiveChildHasJob ==
  \A p \in Pids :
    (proc[p].st # "free" /\ ~(pc \in {"fork_fg", "fork_bg"} /\ pid = p))
      => HasJob(job_list, p)

\* The notices of the specification.
TerminatedNotice(jid, p, sg) == Line("Job", jid, p, "terminated", sg)
StoppedNotice(jid, p, sg) == Line("Job", jid, p, "stopped", sg)

\* C8: when the foreground job is killed by a signal, whichever signal it
\* is, the handler removes its job, writes the one notice "Job [jid] (pid)
\* terminated by signal sg" and sets the flag that ends the foreground wait.
ForegroundKilledNotice ==
  [][\A p \in Pids : \A sg \in TermSigs :
       (HasJob(job_list, p) /\ job_list[p].state = "FG" /\ ReapStep(p, SignaledStatus(sg)))
         => /\ ~HasJob(job_list', p)
            /\ out' = <<TerminatedNotice(job_list[p].jid, p, sg)>>
            /\ sig_chld' = 1]_vars

\* C9: when the foreground job is stopped by a signal, whichever stop signal
\* it is, the handler sets its state to ST, leaves it in the table, writes the
\* one notice "Job [jid] (pid) stopped by signal sg" and sets the flag that
\* ends the foreground wait.
ForegroundStoppedNotice ==
  [][\A p \in Pids : \A sg \in StopSigs :
       (HasJob(job_list, p) /\ job_list[p].state = "FG" /\ ReapStep(p, StoppedStatus(sg)))
         => /\ HasJob(job_list', p)
            /\ job_list'[p].state = "ST"
            /\ out' = <<StoppedNotice(job_list[p].jid, p, sg)>>
            /\ sig_chld' = 1]_vars

\* The text that names job jid on a command line: % and the id in decimal.
Decimal(n) ==
  IF n < 10 THEN <<Digits[n + 1]>>
  ELSE <<Digits[(n \div 10) + 1], Digits[(n % 10) + 1]>>

JobRef(jid) == <<"%">> \o Decimal(jid)

\* C10: bg %id on a stopped job sends SIGCONT to the job's process group,
\* sets its state to BG, prints the line "[jid] (pid) cmdline" of that job,
\* and returns to the prompt without waiting.
BgResumesStopped ==
  [][\A p \in Pids :
       (HasJob(job_list, p) /\ job_list[p].state = "ST"
          /\ cmd' = Cmd("bg", JobRef(job_list[p].jid)))
         => /\ sent' = KillRec("bgfg", -p, SigNo.CONT)
            /\ HasJob(job_list', p)
            /\ job_list'[p].state = "BG"
            /\ out' = <<BgLine(job_list[p].jid, p, job_list[p].cmdline)>>
            /\ pc' = "prompt"
            /\ shell' = "running"]_vars

\* C11: fg %id on a job that is stopped or runs in the background sends
\* SIGCONT to the job, makes it the foreground job, and eval goes on to wait
\* for it with the flag cleared.
FgResumesJob ==
  [][\A p \in Pids :
       (HasJob(job_list, p) /\ job_list[p].state \in {"ST", "BG"}
          /\ cmd' = Cmd("fg", JobRef(job_list[p].jid)))
         => /\ sent' = KillRec("bgfg", -p, SigNo.CONT)
            /\ HasJob(job_list', p)
            /\ job_list'[p].state = "FG"
            /\ sig_chld' = 0
            /\ pc' = "fg_test"]_vars

\* C12: bg or fg on a job that is not stopped changes no job, sends no
\* signal and prints nothing.
BgfgLeavesRunning ==
  [][\A p \in Pids : \A b \in {"bg", "fg"} :
       (HasJob(job_list, p) /\ job_list[p].state # "ST"
          /\ cmd' = Cmd(b, JobRef(job_list[p].jid)))
         => /\ job_list' = job_list
            /\ sent' = NoKill
            /\ out' = <<>>]_vars

\* C12's case: bg or fg has just been given the reference of a job that
\* runs in the background.
BgfgOnRunning ==
  \E p \in DOMAIN job_list :
    /\ job_list[p].state = "BG"
    /\ cmd.builtin \in {"bg", "fg"}
    /\ cmd.argv1 = JobRef(job_list[p].jid)

\* The decimal value of a string of digits.
RECURSIVE DecimalValue(_)
DecimalValue(ds) ==
  IF ds = <<>> THEN 0
  ELSE DecimalValue(SubSeq(ds, 1, Len(ds) - 1)) * 10 + DigitVal(ds[Len(ds)])

\* A well-formed job reference: % and one or more digits.
WellFormed(tok) ==
  /\ Len(tok) >= 2
  /\ tok[1] = "%"
  /\ \A i \in 2..Len(tok) : IsDigit(tok[i])

\* C13: for every job reference % followed by digits, gjid_past_perc
\* returns the decimal value of the digits: whenever bg or fg has been given
\* such a reference, the id it resolved is that value.
ParsesDecimal ==
  (cmd.builtin \in {"bg", "fg"} /\ WellFormed(cmd.argv1))
    => gjid_past_perc(cmd.argv1) = DecimalValue(Tail(cmd.argv1))

\* C14: bg or fg given a token that is not a well-formed job reference
\* changes no job, sends no signal and prints nothing.
MalformedRejected ==
  [][\A tok \in Tokens : \A b \in {"bg", "fg"} :
       (~WellFormed(tok) /\ cmd' = Cmd(b, tok))
         => /\ job_list' = job_list
            /\ sent' = NoKill
            /\ out' = <<>>]_vars

\* C15: handlers are not reentrant and exclude each other: while a handler
\* is in progress no other handler begins.
HandlersExclusive == Len(stack) <= 1

\* C16: a launch at capacity is fatal to the shell at that point: the shell
\* is never running in the foreground wait of a launch whose child is alive
\* and has no job.
CapacityFailureFatal ==
  ~(/\ MainAt("launch_susp")
    /\ proc[pid].st # "free"
    /\ ~HasJob(job_list, pid))

\* C17: the signal a forwarder sends to a job's process group is the one it
\* received, and the job is in the table in state FG when it is sent.
ForwardsToForeground ==
  (sent.src \in {"INT", "TSTP"} /\ sent.target < 0)
    => /\ sent.sig = SigNo[sent.src]
       /\ HasJob(job_list, -sent.target)
       /\ job_list[-sent.target].state = "FG"

\* C18: a job of the table whose process is alive leads its own process
\* group.
JobLeadsItsGroup ==
  \A p \in DOMAIN job_list :
    proc[p].st \in {"run", "stop"} => proc[p].own

\* C19: fg on a reference that names no job, or a job that is not stopped,
\* never suspends the shell: the shell is suspended in fg's wait only while
\* a job is in the foreground or sig_chld is already set.
FgNoOpReturns ==
  MainAt("fg_susp") => (FgJobs # {} \/ sig_chld # 0)

\* C20: sig_chld goes from 0 to 1 only in the reaper, handling a job whose
\* state was FG before the change; and whenever eval returns to the prompt,
\* from a foreground wait or otherwise, no job of the table is FG.
ForegroundWaitDiscipline ==
  [][/\ (sig_chld = 0 /\ sig_chld' = 1)
          => /\ InHandler({"CHLD"}, "got")
             /\ HasJob(job_list, Top.pid)
             /\ job_list[Top.pid].state = "FG"
     /\ (shell' = "running" /\ pc' = "prompt") => FgJobs' = {}]_vars

\* C20's case: the foreground wait of a launch has returned because its job
\* was stopped.
WaitReturnedOnStop ==
  /\ MainAt("prompt")
  /\ sig_chld = 1
  /\ \E p \in DOMAIN job_list :
       job_list[p].state = "ST" /\ job_list[p].cmdline = CmdLine("FG")

====
